---- MODULE Spec2Model ----
(***************************************************************************)
(* Model of cms-core:                                                      *)
(*   src/client/hooks/useSiteSettings.ts   (useSiteSettings, fetchSettings, *)
(*                                          clearSiteSettingsCache)         *)
(*   src/client/lib/siteSettingsTypes.ts   (DEFAULT_SITE_SETTINGS,          *)
(*                                          rowToSiteSettings,              *)
(*                                          siteSettingsToRow)              *)
(*   src/client/components/admin/PageContentEditor.tsx                     *)
(*                                                                         *)
(* The specifications share the module.  Spec is the settings cache, and   *)
(* FairSpec is Spec with every request answered and every continuation     *)
(* run.  MapperSpec applies the two mappers to rows drawn from MapperRows. *)
(* EditorSpec renders PageContentEditor for a page key and runs the change *)
(* handlers of the rendered editor.  The variables of the other two parts  *)
(* keep their initial values in each.                                      *)
(*                                                                         *)
(* JavaScript runs one task at a time.  A task (a render, an effect, a     *)
(* network response, an unmount, a call of clearSiteSettingsCache) runs    *)
(* to completion, and the promise continuations it makes runnable are      *)
(* drained from the microtask queue, in registration order, before the     *)
(* next task starts.  The variable microtasks is that queue.               *)
(*                                                                         *)
(* Hook instances (consumers) are interchangeable, so they are numbered in *)
(* the order in which their effects run; renders are in any order.         *)
(*                                                                         *)
(* A SiteSettings object is held by reference, as in JavaScript: the       *)
(* slots and the hook states hold DefaultRef or ObjectRef(p), and Deref    *)
(* gives the object's fields.                                              *)
(*                                                                         *)
(* null is modelled as the empty tuple.  A nullable string, boolean or     *)
(* array of a row is the empty tuple or the one-element tuple <<v>>.       *)
(***************************************************************************)
EXTENDS Integers, Sequences, FiniteSets, TLC

\* ------------------------------------------------------------------ bounds
NumConsumers == 3
MaxFetches == 2
MaxInvalidations == 1
MaxBlanked == 1
MaxCleared == 1
MaxEdits == 2
MaxItems == 2
MaxTextLen == 2
MaxJsonLen == 3

Consumers == 1..NumConsumers
FetchIds == 1..MaxFetches

NULL == <<>>
Some(v) == <<v>>

\* ---------------------------------------------------- siteSettingsTypes.ts
\* The two long URLs and the copyright line are abbreviated.
DEFAULT_SITE_SETTINGS ==
  [ siteName |-> "Silva Trial Lawyers",
    logoUrl |-> "https://cdn.builder.io/logo",
    logoAlt |-> "Silva Trial Lawyers",
    phoneNumber |-> "4049057742",
    phoneDisplay |-> "404-905-7742",
    phoneAvailability |-> "Available 24/7",
    applyPhoneGlobally |-> TRUE,
    headerCtaText |-> "GET HELP NOW",
    headerCtaUrl |-> "#book",
    navigationItems |->
      << [label |-> "Home", href |-> "/", order |-> 1],
         [label |-> "About Us", href |-> "/about", order |-> 2],
         [label |-> "Practice Areas", href |-> "/practice-areas", order |-> 3],
         [label |-> "Contact Us", href |-> "/contact", order |-> 4] >>,
    footerAboutLinks |->
      << [label |-> "About Us", href |-> "/about"],
         [label |-> "Contact", href |-> "/contact"] >>,
    footerPracticeLinks |->
      << [label |-> "Car Accidents", href |-> "/practice-areas"],
         [label |-> "Truck Accidents", href |-> "/practice-areas"],
         [label |-> "Motorcycle Accidents", href |-> "/practice-areas"],
         [label |-> "Premises Liability", href |-> "/practice-areas"],
         [label |-> "Workers Compensation", href |-> "/practice-areas"],
         [label |-> "Wrongful Death", href |-> "/practice-areas"] >>,
    addressLine1 |-> "4120 Presidential Parkway, Suite 200",
    addressLine2 |-> "Atlanta, Georgia 30340",
    mapEmbedUrl |-> "https://www.google.com/maps/embed",
    socialLinks |->
      << [platform |-> "facebook", url |-> "https://facebook.com", enabled |-> TRUE],
         [platform |-> "instagram", url |-> "https://instagram.com", enabled |-> TRUE] >>,
    copyrightText |-> "Copyright 2026 | Silva Trial Lawyers | All Rights Reserved",
    siteNoindex |-> FALSE,
    ga4MeasurementId |-> "",
    googleAdsId |-> "",
    googleAdsConversionLabel |-> "",
    headScripts |-> "",
    footerScripts |-> "" ]

\* x || d on a nullable string: null and "" are falsy.
OrDefault_KeepsEmpty(x, d) == IF x = NULL THEN d ELSE x[1]

OrDefault(x, d) == IF x = NULL \/ x = Some("") THEN d ELSE x[1]

\* x ?? d on a nullable boolean: only null is replaced.
Nullish_AlwaysDefault(x, d) == d

Nullish_FalsyDefault(x, d) == IF x = NULL \/ x = Some(FALSE) THEN d ELSE x[1]

Nullish(x, d) == IF x = NULL THEN d ELSE x[1]

\* x?.length ? x : d on a nullable array.
NonEmptyOr_KeepsEmpty(x, d) == IF x = NULL THEN d ELSE x[1]

NonEmptyOr(x, d) == IF x = NULL THEN d ELSE IF Len(x[1]) = 0 THEN d ELSE x[1]

rowToSiteSettings(row) ==
  [ siteName |-> OrDefault(row.site_name, DEFAULT_SITE_SETTINGS.siteName),
    logoUrl |-> OrDefault(row.logo_url, DEFAULT_SITE_SETTINGS.logoUrl),
    logoAlt |-> OrDefault(row.logo_alt, DEFAULT_SITE_SETTINGS.logoAlt),
    phoneNumber |-> OrDefault(row.phone_number, DEFAULT_SITE_SETTINGS.phoneNumber),
    phoneDisplay |-> OrDefault(row.phone_display, DEFAULT_SITE_SETTINGS.phoneDisplay),
    phoneAvailability |->
      OrDefault(row.phone_availability, DEFAULT_SITE_SETTINGS.phoneAvailability),
    applyPhoneGlobally |->
      Nullish(row.apply_phone_globally, DEFAULT_SITE_SETTINGS.applyPhoneGlobally),
    headerCtaText |-> OrDefault(row.header_cta_text, DEFAULT_SITE_SETTINGS.headerCtaText),
    headerCtaUrl |-> OrDefault(row.header_cta_url, DEFAULT_SITE_SETTINGS.headerCtaUrl),
    navigationItems |->
      NonEmptyOr(row.navigation_items, DEFAULT_SITE_SETTINGS.navigationItems),
    footerAboutLinks |->
      NonEmptyOr(row.footer_about_links, DEFAULT_SITE_SETTINGS.footerAboutLinks),
    footerPracticeLinks |->
      NonEmptyOr(row.footer_practice_links, DEFAULT_SITE_SETTINGS.footerPracticeLinks),
    addressLine1 |-> OrDefault(row.address_line1, DEFAULT_SITE_SETTINGS.addressLine1),
    addressLine2 |-> OrDefault(row.address_line2, DEFAULT_SITE_SETTINGS.addressLine2),
    mapEmbedUrl |-> OrDefault(row.map_embed_url, DEFAULT_SITE_SETTINGS.mapEmbedUrl),
    socialLinks |-> NonEmptyOr(row.social_links, DEFAULT_SITE_SETTINGS.socialLinks),
    copyrightText |-> OrDefault(row.copyright_text, DEFAULT_SITE_SETTINGS.copyrightText),
    siteNoindex |-> Nullish(row.site_noindex, DEFAULT_SITE_SETTINGS.siteNoindex),
    ga4MeasurementId |-> OrDefault(row.ga4_measurement_id, ""),
    googleAdsId |-> OrDefault(row.google_ads_id, ""),
    googleAdsConversionLabel |-> OrDefault(row.google_ads_conversion_label, ""),
    headScripts |-> OrDefault(row.head_scripts, ""),
    footerScripts |-> OrDefault(row.footer_scripts, "") ]

\* Rows of the site_settings table the remote store may answer with.
\* RowFull has every field populated.
RowFull ==
  [ id |-> "row-1",
    settings_key |-> "global",
    logo_url |-> Some("/logo.png"),
    logo_alt |-> Some("Acme Law"),
    phone_number |-> Some("5551234567"),
    phone_display |-> Some("555-123-4567"),
    phone_availability |-> Some("Mon-Fri"),
    apply_phone_globally |-> Some(FALSE),
    header_cta_text |-> Some("CALL US"),
    header_cta_url |-> Some("/contact"),
    navigation_items |-> Some(<< [label |-> "Start", href |-> "/", order |-> 1] >>),
    footer_about_links |-> Some(<< [label |-> "Team", href |-> "/team"] >>),
    footer_practice_links |-> Some(<< [label |-> "Injury", href |-> "/injury"] >>),
    address_line1 |-> Some("1 Main St"),
    address_line2 |-> Some("Springfield"),
    map_embed_url |-> Some("/map"),
    social_links |->
      Some(<< [platform |-> "youtube", url |-> "https://youtube.com", enabled |-> FALSE] >>),
    copyright_text |-> Some("(c) Acme"),
    site_noindex |-> Some(TRUE),
    ga4_measurement_id |-> Some("G-1"),
    google_ads_id |-> Some("AW-1"),
    google_ads_conversion_label |-> Some("lbl"),
    head_scripts |-> Some("<script>h</script>"),
    footer_scripts |-> Some("<script>f</script>"),
    site_name |-> Some("Acme Law"),
    updated_at |-> "2026-01-01",
    updated_by |-> Some("admin") ]

\* RowSparse has null and empty fields beside one stored name.
RowSparse ==
  [ RowFull EXCEPT
      !.id = "row-2",
      !.logo_url = NULL,
      !.logo_alt = Some(""),
      !.phone_number = NULL,
      !.phone_display = NULL,
      !.phone_availability = NULL,
      !.apply_phone_globally = NULL,
      !.header_cta_text = NULL,
      !.header_cta_url = Some(""),
      !.navigation_items = Some(<<>>),
      !.footer_about_links = NULL,
      !.footer_practice_links = NULL,
      !.address_line1 = NULL,
      !.address_line2 = NULL,
      !.map_embed_url = NULL,
      !.social_links = Some(<<>>),
      !.copyright_text = NULL,
      !.site_noindex = NULL,
      !.ga4_measurement_id = NULL,
      !.google_ads_id = NULL,
      !.google_ads_conversion_label = NULL,
      !.head_scripts = NULL,
      !.footer_scripts = NULL,
      !.site_name = Some("Sparse Firm"),
      !.updated_by = NULL ]

Rows == {RowFull, RowSparse}

\* The row column each SiteSettings field is read from and written to.
ColumnOf ==
  [ siteName |-> "site_name",
    logoUrl |-> "logo_url",
    logoAlt |-> "logo_alt",
    phoneNumber |-> "phone_number",
    phoneDisplay |-> "phone_display",
    phoneAvailability |-> "phone_availability",
    applyPhoneGlobally |-> "apply_phone_globally",
    headerCtaText |-> "header_cta_text",
    headerCtaUrl |-> "header_cta_url",
    navigationItems |-> "navigation_items",
    footerAboutLinks |-> "footer_about_links",
    footerPracticeLinks |-> "footer_practice_links",
    addressLine1 |-> "address_line1",
    addressLine2 |-> "address_line2",
    mapEmbedUrl |-> "map_embed_url",
    socialLinks |-> "social_links",
    copyrightText |-> "copyright_text",
    siteNoindex |-> "site_noindex",
    ga4MeasurementId |-> "ga4_measurement_id",
    googleAdsId |-> "google_ads_id",
    googleAdsConversionLabel |-> "google_ads_conversion_label",
    headScripts |-> "head_scripts",
    footerScripts |-> "footer_scripts" ]

\* The SiteSettings fields by type.
BooleanFields == {"applyPhoneGlobally", "siteNoindex"}
ArrayFields ==
  {"navigationItems", "footerAboutLinks", "footerPracticeLinks", "socialLinks"}
TextFields == (DOMAIN ColumnOf \ BooleanFields) \ ArrayFields

\* The row columns by type; updated_by is a nullable string no field reads.
BooleanColumns == {ColumnOf[f] : f \in BooleanFields}
ArrayColumns == {ColumnOf[f] : f \in ArrayFields}
TextColumns == {ColumnOf[f] : f \in TextFields} \cup {"updated_by"}
NullableColumns == TextColumns \cup BooleanColumns \cup ArrayColumns

\* The columns of a row that siteSettingsToRow does not produce.
UnwrittenColumns == {"id", "settings_key", "updated_at", "updated_by"}

\* x || null on a string: "" is falsy.
OrNull_KeepsEmpty(x) == Some(x)

OrNull(x) == IF x = "" THEN NULL ELSE Some(x)

siteSettingsToRow(s) ==
  [ logo_url |-> Some(s.logoUrl),
    logo_alt |-> Some(s.logoAlt),
    phone_number |-> Some(s.phoneNumber),
    phone_display |-> Some(s.phoneDisplay),
    phone_availability |-> Some(s.phoneAvailability),
    apply_phone_globally |-> Some(s.applyPhoneGlobally),
    header_cta_text |-> Some(s.headerCtaText),
    header_cta_url |-> Some(s.headerCtaUrl),
    navigation_items |-> Some(s.navigationItems),
    footer_about_links |-> Some(s.footerAboutLinks),
    footer_practice_links |-> Some(s.footerPracticeLinks),
    address_line1 |-> Some(s.addressLine1),
    address_line2 |-> Some(s.addressLine2),
    map_embed_url |-> Some(s.mapEmbedUrl),
    social_links |-> Some(s.socialLinks),
    copyright_text |-> Some(s.copyrightText),
    site_noindex |-> Some(s.siteNoindex),
    ga4_measurement_id |-> OrNull(s.ga4MeasurementId),
    google_ads_id |-> OrNull(s.googleAdsId),
    google_ads_conversion_label |-> OrNull(s.googleAdsConversionLabel),
    head_scripts |-> OrNull(s.headScripts),
    footer_scripts |-> OrNull(s.footerScripts),
    site_name |-> Some(s.siteName) ]

\* The other stored value of a column: the empty string, the empty array,
\* the other boolean.
OtherValue(col) ==
  IF col \in BooleanColumns THEN Some(~RowFull[col][1])
  ELSE IF col \in ArrayColumns THEN Some(<<>>)
  ELSE Some("")

\* RowFull with the columns of N null and the columns of E holding their
\* other value.
RowWith(N, E) ==
  [col \in DOMAIN RowFull |->
     IF col \in N THEN NULL
     ELSE IF col \in E THEN OtherValue(col)
     ELSE RowFull[col]]

\* The subsets of S with at most k elements.
RECURSIVE SubsetsUpTo(_, _)
SubsetsUpTo(S, k) ==
  IF k = 0 THEN {{}}
  ELSE LET smaller == SubsetsUpTo(S, k - 1)
       IN smaller \cup {T \cup {x} : T \in smaller, x \in S}

RowAllNull == RowWith(NullableColumns, {})
RowAllEmpty == RowWith({}, NullableColumns)

\* The rows the mappers are applied to: RowFull with at most MaxBlanked
\* nullable columns null or changed, and the rows with all of them so.
MapperRows ==
  UNION {{RowWith(N, B \ N) : N \in SUBSET B} :
           B \in SubsetsUpTo(NullableColumns, MaxBlanked)}
    \cup {RowSparse, RowAllNull, RowAllEmpty}

\* -------------------------------------------------- PageContentEditor.tsx
\* A pageKey prop: a string, or a value of another type (str is then what
\* the value prints as).
StringKey(s) == [isString |-> TRUE, str |-> s]
NonStringKey == [isString |-> FALSE, str |-> "/about"]

PageKeys ==
  {StringKey(s) : s \in {"/", "/home", "/about", "/contact", "/practice-areas",
                         "/blog", "", "/about/"}}
    \cup {NonStringKey}

Editors ==
  {"HomePageEditor", "AboutPageEditor", "ContactPageEditor",
   "PracticeAreasPageEditor", "Fallback"}

\* The if-chain of PageContentEditor.
selectEditor_NoHomeAlias(key) ==
  LET urlPath == IF key.isString THEN key.str ELSE "" IN
    IF urlPath = "/" THEN "HomePageEditor"
    ELSE IF urlPath = "/about" THEN "AboutPageEditor"
    ELSE IF urlPath = "/contact" THEN "ContactPageEditor"
    ELSE IF urlPath = "/practice-areas" THEN "PracticeAreasPageEditor"
    ELSE "Fallback"

selectEditor(key) ==
  LET urlPath == IF key.isString THEN key.str ELSE "" IN
    IF urlPath = "/" \/ urlPath = "/home" THEN "HomePageEditor"
    ELSE IF urlPath = "/about" THEN "AboutPageEditor"
    ELSE IF urlPath = "/contact" THEN "ContactPageEditor"
    ELSE IF urlPath = "/practice-areas" THEN "PracticeAreasPageEditor"
    ELSE "Fallback"

\* A string is the sequence of its characters; "\n" is the line break.
LineSep == << "\n" >>
ParagraphSep == << "\n", "\n" >>

\* The values of a textarea of at most MaxTextLen characters.
Texts == UNION {[1..n -> {"a", "\n"}] : n \in 0..MaxTextLen}

\* The value typed into a single-line input.
PlainInputs == {<< "b" >>}

\* What every text of a stored document is before it is edited.
StoredText == << "a" >>

\* String.prototype.split(sep), sep non-empty.
MatchesAt(text, sep, i) ==
  /\ i + Len(sep) - 1 <= Len(text)
  /\ \A j \in 1..Len(sep) : text[i + j - 1] = sep[j]

RECURSIVE SplitFrom(_, _, _, _)
SplitFrom(text, sep, i, cur) ==
  IF i > Len(text) THEN << cur >>
  ELSE IF MatchesAt(text, sep, i)
    THEN << cur >> \o SplitFrom(text, sep, i + Len(sep), <<>>)
    ELSE SplitFrom(text, sep, i + 1, Append(cur, text[i]))

split(text, sep) == SplitFrom(text, sep, 1, <<>>)

\* Array.prototype.filter(Boolean) on strings: "" is falsy.
filterBoolean(list) == SelectSeq(list, LAMBDA t : t # <<>>)

\* Array.prototype.join(sep).
RECURSIVE join(_, _)
join(list, sep) ==
  IF Len(list) = 0 THEN <<>>
  ELSE IF Len(list) = 1 THEN list[1]
  ELSE list[1] \o sep \o join(Tail(list), sep)

\* { ...obj, [key]: value }
Spread(obj, key, value) ==
  [k \in DOMAIN obj \cup {key} |-> IF k = key THEN value ELSE obj[k]]

\* ArrayEditor: addItem, removeItem, updateItem.  Indexes start at 1.
addItem(items, newItem) == Append(items, newItem)

removeItem_KeepsIndex(items, index) ==
  [j \in 1..(Len(items) - 1) |-> IF j <= index THEN items[j] ELSE items[j + 1]]

removeItem(items, index) ==
  [j \in 1..(Len(items) - 1) |-> IF j < index THEN items[j] ELSE items[j + 1]]

updateItem(items, index, item) ==
  [j \in 1..Len(items) |-> IF j = index THEN item ELSE items[j]]

\* The array the items prop refers to, as it is when the operation returns:
\* [...items, x], items.filter(...) and [...items] build a new array, and
\* the assignment newItems[index] = item is made to the copy.
addItemInput(items, newItem) == items
removeItemInput(items, index) == items
updateItemInput(items, index, item) == items

\* The inputs of each specific editor.  text: <<section, field>> of an input
\* bound to content.section.field; lists: a textarea bound to an array of
\* strings joined with sep; topText: an input bound to content.key;
\* topArrays: an ArrayEditor bound to content.key; nestedArrays: an
\* ArrayEditor bound to content.section.key.
List(s, f, sep) == [section |-> s, field |-> f, sep |-> sep]

HomePageEditor ==
  [ text |->
      { <<"hero", "title">>, <<"hero", "subtitle">>, <<"hero", "backgroundImage">>,
        <<"hero", "ctaText">>, <<"hero", "ctaUrl">>, <<"hero", "attorneyImage">>,
        <<"hero", "badgeImage">>,
        <<"mission", "heading">>, <<"mission", "image">>,
        <<"mission", "ctaPrimaryText">>, <<"mission", "ctaPrimaryUrl">>,
        <<"mission", "ctaSecondaryText">>, <<"mission", "ctaSecondaryUrl">>,
        <<"attorney", "name">>, <<"attorney", "title">>, <<"attorney", "photo">>,
        <<"attorney", "bio">>, <<"attorney", "phone">>,
        <<"speakWithUs", "heading">>, <<"speakWithUs", "description">>,
        <<"speakWithUs", "image">>, <<"speakWithUs", "ctaText">>,
        <<"speakWithUs", "ctaUrl">>,
        <<"clientStories", "heading">>, <<"clientStories", "subtitle">>,
        <<"contactForm", "heading">>, <<"contactForm", "image">>,
        <<"contactForm", "badgeImage">>,
        <<"services", "heading">>, <<"services", "description">>,
        <<"services", "closingText">> },
    lists |-> { List("mission", "paragraphs", ParagraphSep),
                List("attorney", "bullets", LineSep) },
    topText |-> {},
    topArrays |-> {"features"},
    nestedArrays |-> { <<"clientStories", "videos">>, <<"services", "items">> } ]

AboutPageEditor ==
  [ text |->
      { <<"hero", "title">>, <<"hero", "backgroundImage">>,
        <<"story", "image">>, <<"story", "ctaPrimaryText">>,
        <<"story", "ctaPrimaryUrl">>,
        <<"attorney", "name">>, <<"attorney", "title">>, <<"attorney", "photo">>,
        <<"attorney", "phone">>,
        <<"cta", "heading">>, <<"cta", "description">>, <<"cta", "phone">> },
    lists |-> { List("story", "paragraphs", ParagraphSep),
                List("attorney", "bio", ParagraphSep) },
    topText |-> {},
    topArrays |-> {"approach", "testimonials"},
    nestedArrays |-> {} ]

ContactPageEditor ==
  [ text |->
      { <<"hero", "title">>, <<"hero", "subtitle">>, <<"hero", "backgroundImage">>,
        <<"info", "phone">>, <<"info", "phoneNote">>, <<"info", "addressLabel">>,
        <<"form", "heading">>, <<"form", "image">>, <<"form", "badgeImage">>,
        <<"cta", "heading">>, <<"cta", "description">>, <<"cta", "phone">> },
    lists |-> { List("info", "address", LineSep) },
    topText |-> {"hoursNote", "mapEmbedUrl"},
    topArrays |-> {"officeHours"},
    nestedArrays |-> {} ]

PracticeAreasPageEditor ==
  [ text |->
      { <<"hero", "title">>, <<"hero", "backgroundImage">>,
        <<"options", "heading">>, <<"options", "text">>, <<"options", "image">>,
        <<"options", "ctaPrimaryText">>, <<"options", "ctaPrimaryUrl">>,
        <<"cta", "heading">>, <<"cta", "description">>, <<"cta", "phone">> },
    lists |-> {},
    topText |-> {"intro"},
    topArrays |-> {"areas"},
    nestedArrays |-> {} ]

SpecificEditors ==
  [ HomePageEditor |-> HomePageEditor,
    AboutPageEditor |-> AboutPageEditor,
    ContactPageEditor |-> ContactPageEditor,
    PracticeAreasPageEditor |-> PracticeAreasPageEditor ]

\* newItem() of each ArrayEditor.
NewItemOf ==
  [ features |-> [icon |-> << "trial-driven" >>, title |-> <<>>, description |-> <<>>],
    videos |-> [embedUrl |-> <<>>, thumbnail |-> <<>>],
    items |-> [title |-> <<>>, icon |-> << "CarFront" >>],
    approach |-> [icon |-> << "FileText" >>, title |-> <<>>, description |-> <<>>],
    testimonials |->
      [quote |-> <<>>, name |-> <<>>, initials |-> <<>>, caseType |-> <<>>,
       rating |-> 5],
    officeHours |-> [label |-> <<>>, hours |-> <<>>],
    areas |-> [name |-> <<>>, icon |-> << "CarFront" >>, description |-> <<>>] ]

\* The fields of an item that renderItem binds to an input.
ItemFields ==
  [ features |-> {"icon", "title", "description"},
    videos |-> {"embedUrl", "thumbnail"},
    items |-> {"title", "icon"},
    approach |-> {"icon", "title", "description"},
    testimonials |-> {"quote", "name", "initials", "caseType"},
    officeHours |-> {"label", "hours"},
    areas |-> {"name", "icon", "description"} ]

\* The document stored for a page: every text is StoredText, every array
\* has one item.
StoredItem(a) ==
  [f \in DOMAIN NewItemOf[a] |->
     IF f \in ItemFields[a] THEN StoredText ELSE NewItemOf[a][f]]

SectionsOf(E) ==
  {p[1] : p \in E.text} \cup {l.section : l \in E.lists}
    \cup {p[1] : p \in E.nestedArrays}

StoredSection(E, s) ==
  [f \in {p[2] : p \in {q \in E.text : q[1] = s}}
           \cup {l.field : l \in {m \in E.lists : m.section = s}}
           \cup {p[2] : p \in {q \in E.nestedArrays : q[1] = s}} |->
     IF \E l \in E.lists : l.section = s /\ l.field = f THEN << StoredText >>
     ELSE IF <<s, f>> \in E.nestedArrays THEN << StoredItem(f) >>
     ELSE StoredText]

StoredDocument(E) ==
  [k \in SectionsOf(E) \cup E.topText \cup E.topArrays |->
     IF k \in E.topText THEN StoredText
     ELSE IF k \in E.topArrays THEN << StoredItem(k) >>
     ELSE StoredSection(E, k)]

\* JSON text is the sequence of its tokens; the grammar has the number 1,
\* the empty object and arrays.
JsonTokens == {"[", "]", "{", "}", ",", "1"}
JsonTexts == UNION {[1..n -> JsonTokens] : n \in 0..MaxJsonLen}

JsonNumber == [type |-> "number", items |-> <<>>]
JsonObject == [type |-> "object", items |-> <<>>]
JsonArray(items) == [type |-> "array", items |-> items]

\* JSON.parse: a value and the position after it, or a SyntaxError.
JsonParsed(value, next) == [ok |-> TRUE, value |-> value, next |-> next]
SyntaxError == [ok |-> FALSE, value |-> NULL, next |-> 0]

RECURSIVE parseValue(_, _)
RECURSIVE parseElements(_, _, _)
parseValue(t, i) ==
  IF i > Len(t) THEN SyntaxError
  ELSE IF t[i] = "1" THEN JsonParsed(JsonNumber, i + 1)
  ELSE IF t[i] = "{"
    THEN IF i + 1 <= Len(t) /\ t[i + 1] = "}"
           THEN JsonParsed(JsonObject, i + 2)
           ELSE SyntaxError
  ELSE IF t[i] = "["
    THEN IF i + 1 <= Len(t) /\ t[i + 1] = "]"
           THEN JsonParsed(JsonArray(<<>>), i + 2)
           ELSE parseElements(t, i + 1, <<>>)
  ELSE SyntaxError

parseElements(t, i, acc) ==
  LET e == parseValue(t, i) IN
    IF ~e.ok THEN SyntaxError
    ELSE IF e.next > Len(t) THEN SyntaxError
    ELSE IF t[e.next] = "]"
      THEN JsonParsed(JsonArray(Append(acc, e.value)), e.next + 1)
    ELSE IF t[e.next] = ","
      THEN parseElements(t, e.next + 1, Append(acc, e.value))
    ELSE SyntaxError

JSONparse_AcceptsPrefix(t) == parseValue(t, 1)

JSONparse(t) ==
  LET r == parseValue(t, 1) IN
    IF r.ok /\ r.next = Len(t) + 1 THEN r ELSE SyntaxError

\* The content prop the parent passes for a page.
StoredContent(key) ==
  LET urlPath == IF key.isString THEN key.str ELSE "" IN
    IF urlPath \in {"/", "/home"} THEN StoredDocument(HomePageEditor)
    ELSE IF urlPath = "/about" THEN StoredDocument(AboutPageEditor)
    ELSE IF urlPath = "/contact" THEN StoredDocument(ContactPageEditor)
    ELSE IF urlPath = "/practice-areas" THEN StoredDocument(PracticeAreasPageEditor)
    ELSE JsonObject

\* ------------------------------------------------------------ the network
\* What the remote store may answer to the GET of fetchSettings: the request
\* fails, or a response with a status arrives whose body is unparseable, a
\* JSON value that is no array, or an array of rows.
Response(netError, status, jsonOk, isArray, data) ==
  [netError |-> netError, status |-> status, jsonOk |-> jsonOk,
   isArray |-> isArray, data |-> data]

StoredRows == {RowFull}

Responses ==
  { Response(TRUE, 0, FALSE, FALSE, <<>>),
    Response(FALSE, 500, TRUE, FALSE, <<>>),
    Response(FALSE, 200, FALSE, FALSE, <<>>),
    Response(FALSE, 200, TRUE, FALSE, <<>>),
    Response(FALSE, 200, TRUE, TRUE, <<>>) }
  \cup { Response(FALSE, 200, TRUE, TRUE, <<r>>) : r \in StoredRows }

\* response.ok
ResponseOk(resp) == resp.status >= 200 /\ resp.status <= 299

\* An Error object thrown while fetch p runs; two fetches never throw the
\* same object.
ErrorOf(name, message, p) ==
  [name |-> name, message |-> message, fetch |-> p, isError |-> TRUE]

UnknownError ==
  [name |-> "Error", message |-> "Unknown error", fetch |-> 0, isError |-> TRUE]

\* err instanceof Error ? err : new Error("Unknown error")
asError(err) == IF err.isError THEN err ELSE UnknownError

\* A SiteSettings object is held by reference: DefaultRef is the module's
\* DEFAULT_SITE_SETTINGS object, ObjectRef(p) the object rowToSiteSettings
\* built in fetch p.
DefaultRef == [obj |-> 0]
ObjectRef(p) == [obj |-> p]

Fulfilled(ref, built) == [ok |-> TRUE, value |-> ref, built |-> built, error |-> NULL]
Rejected(err) == [ok |-> FALSE, value |-> NULL, built |-> NULL, error |-> err]

\* ------------------------------------------------------ useSiteSettings.ts
\* The async function whose promise is stored in fetchPromise: how the
\* promise of fetch p settles when the network answers resp.
fetchOutcome_NoStatusCheck(resp, p) ==
  IF resp.netError THEN Rejected(ErrorOf("TypeError", "Failed to fetch", p))
  ELSE IF ~resp.jsonOk THEN Rejected(ErrorOf("SyntaxError", "Unexpected token", p))
  ELSE IF ~resp.isArray \/ Len(resp.data) = 0 THEN Fulfilled(DefaultRef, NULL)
  ELSE Fulfilled(ObjectRef(p), rowToSiteSettings(resp.data[1]))

fetchOutcome_IgnoresRow(resp, p) ==
  IF resp.netError THEN Rejected(ErrorOf("TypeError", "Failed to fetch", p))
  ELSE IF ~ResponseOk(resp) THEN Rejected(ErrorOf("Error", "HTTP error", p))
  ELSE IF ~resp.jsonOk THEN Rejected(ErrorOf("SyntaxError", "Unexpected token", p))
  ELSE Fulfilled(DefaultRef, NULL)

fetchOutcome(resp, p) ==
  IF resp.netError THEN Rejected(ErrorOf("TypeError", "Failed to fetch", p))
  ELSE IF ~ResponseOk(resp) THEN Rejected(ErrorOf("Error", "HTTP error", p))
  ELSE IF ~resp.jsonOk THEN Rejected(ErrorOf("SyntaxError", "Unexpected token", p))
  ELSE IF ~resp.isArray \/ Len(resp.data) = 0 THEN Fulfilled(DefaultRef, NULL)
  ELSE Fulfilled(ObjectRef(p), rowToSiteSettings(resp.data[1]))

VARIABLES
  settingsCache,   \* module slot: NULL or a SiteSettings
  fetchPromise,    \* module slot: NULL or the promise [id |-> p] of fetch p
  fetches,         \* fetch p's promise: state, value, error; and what was answered
  objects,         \* the SiteSettings object built in fetch p, or NULL
  waiters,         \* fetch p's awaiting consumers, in the order they awaited
  microtasks,      \* consumers whose continuation is runnable, in order
  pc,              \* where each consumer (hook instance) is
  isMounted,       \* the effect's isMounted flag
  settings,        \* the hook's settings state
  isLoading,       \* the hook's isLoading state
  error,           \* the hook's error state
  awaited,         \* the promise a consumer awaits
  requests,        \* history: outbound requests issued so far
  invalidations,   \* history: calls of clearSiteSettingsCache so far
  cacheSource,     \* history: the fetch whose result settingsCache holds, or 0
  populated,       \* history: a fetch has written settingsCache at least once
  lastCacheOp,     \* history: the last operation on the two slots
  servedStale,     \* history: per consumer, its call of fetchSettings was
                   \* answered from a fetch started before the latest
                   \* clearSiteSettingsCache
  row,             \* mappers: the SiteSettingsRow read from the store
  mapped,          \* mappers: NULL or the SiteSettings made of row
  written,         \* mappers: NULL or the partial row made of mapped
  cleared,         \* mappers: the text fields of mapped a caller emptied
  pageKey,         \* editor: the pageKey prop
  editor,          \* editor: "none" or the editor PageContentEditor rendered
  content,         \* editor: the content prop, the document being edited
  typed,           \* editor: NULL or <<t>>, t the text of the fallback
                   \* textarea whose change event is being delivered
  onChangeCalls,   \* editor: the arguments of the onChange calls of the
                   \* last change handler, in order
  itemsKept,       \* editor: the array passed as items to the ArrayEditor
                   \* whose operation ran last is, when the operation
                   \* returns, as it was passed
  edits,           \* editor: history, the change handlers invoked so far
  arrayOp,         \* editor: history, the operation of an ArrayEditor the
                   \* last change handler invoked, if it invoked one
  fieldEdits       \* editor: history, only: the handlers invoked so far all
                   \* were field edits; last: for each edited field, the
                   \* value last written to it

cacheVars ==
  << settingsCache, fetchPromise, fetches, objects, waiters, microtasks, pc, isMounted,
     settings, isLoading, error, awaited, requests, invalidations,
     cacheSource, populated, lastCacheOp, servedStale >>

mapperVars == << row, mapped, written, cleared >>

editorVars ==
  << pageKey, editor, content, typed, onChangeCalls, itemsKept, edits, arrayOp, fieldEdits >>

vars == << cacheVars, mapperVars, editorVars >>

NoFetch ==
  [state |-> "none", value |-> NULL, error |-> NULL, resp |-> NULL, startInv |-> 0]

\* The module as loaded: both slots empty, no hook instance rendered.
CacheInit ==
  /\ settingsCache = NULL
  /\ fetchPromise = NULL
  /\ fetches = [p \in FetchIds |-> NoFetch]
  /\ objects = [p \in FetchIds |-> NULL]
  /\ waiters = [p \in FetchIds |-> <<>>]
  /\ microtasks = <<>>
  /\ pc = [c \in Consumers |-> "new"]
  /\ isMounted = [c \in Consumers |-> FALSE]
  /\ settings = [c \in Consumers |-> NULL]
  /\ isLoading = [c \in Consumers |-> FALSE]
  /\ error = [c \in Consumers |-> NULL]
  /\ awaited = [c \in Consumers |-> NULL]
  /\ requests = 0
  /\ invalidations = 0
  /\ cacheSource = 0
  /\ populated = FALSE
  /\ lastCacheOp = "none"
  /\ servedStale = [c \in Consumers |-> FALSE]

\* No mapper is applied.
MapperIdle ==
  /\ row = RowFull
  /\ mapped = NULL
  /\ written = NULL
  /\ cleared = {}

\* No editor is rendered.
EditorIdle ==
  /\ pageKey = StringKey("/")
  /\ editor = "none"
  /\ content = NULL
  /\ typed = NULL
  /\ onChangeCalls = <<>>
  /\ itemsKept = TRUE
  /\ edits = 0
  /\ arrayOp = [op |-> "none", array |-> "", index |-> 0]
  /\ fieldEdits = [only |-> TRUE, last |-> << >>]

Init == CacheInit /\ MapperIdle /\ EditorIdle

\* The fields of the SiteSettings object behind a reference.
Deref(ref) == IF ref = DefaultRef THEN DEFAULT_SITE_SETTINGS ELSE objects[ref.obj]

\* useState(settingsCache || DEFAULT_SITE_SETTINGS)
useStateSettings_NoDefault == settingsCache

useStateSettings ==
  IF settingsCache # NULL THEN settingsCache ELSE DefaultRef

\* useState(!settingsCache)
useStateIsLoading == settingsCache = NULL

\* The first render of a hook instance: the three useState initialisers.
render(c) ==
  /\ UNCHANGED << mapperVars, editorVars >>
  /\ microtasks = <<>>
  /\ pc[c] = "new"
  /\ pc' = [pc EXCEPT ![c] = "rendered"]
  /\ settings' = [settings EXCEPT ![c] = useStateSettings]
  /\ isLoading' = [isLoading EXCEPT ![c] = useStateIsLoading]
  /\ error' = [error EXCEPT ![c] = NULL]
  /\ UNCHANGED << settingsCache, fetchPromise, fetches, objects, waiters, microtasks,
                  isMounted, awaited, requests, invalidations, cacheSource,
                  populated, lastCacheOp, servedStale >>

\* if (settingsCache)
cacheHit_Never == FALSE

cacheHit == settingsCache # NULL

\* if (fetchPromise)
joinInFlight_Never == FALSE

joinInFlight == fetchPromise # NULL

\* Fetch p was started before the latest clearSiteSettingsCache.
StartedBeforeInvalidate(p) == fetches[p].startInv < invalidations

\* fetchSettings, first branch: the value is cached.
cachedPath(c) ==
  /\ cacheHit
  /\ settings' = [settings EXCEPT ![c] = settingsCache]
  /\ isLoading' = [isLoading EXCEPT ![c] = FALSE]
  /\ pc' = [pc EXCEPT ![c] = "done"]
  /\ servedStale' = [servedStale EXCEPT ![c] =
                       cacheSource # 0 /\ StartedBeforeInvalidate(cacheSource)]
  /\ UNCHANGED << settingsCache, fetchPromise, fetches, objects, waiters, microtasks,
                  error, awaited, requests, cacheSource, populated >>

\* fetchSettings, second branch: await the fetch in flight.
joinPath(c) ==
  /\ ~cacheHit
  /\ joinInFlight
  /\ LET p == fetchPromise.id IN
       /\ awaited' = [awaited EXCEPT ![c] = fetchPromise]
       /\ IF fetches[p].state = "pending"
            THEN /\ waiters' = [waiters EXCEPT ![p] = Append(@, c)]
                 /\ microtasks' = microtasks
            ELSE /\ waiters' = waiters
                 /\ microtasks' = Append(microtasks, c)
       /\ servedStale' = [servedStale EXCEPT ![c] = StartedBeforeInvalidate(p)]
  /\ pc' = [pc EXCEPT ![c] = "joined"]
  /\ UNCHANGED << settingsCache, fetchPromise, fetches, objects, settings,
                  isLoading, error, requests, cacheSource, populated >>

\* fetchSettings, third branch: start a fetch, publish its promise, await it.
startPath(c) ==
  /\ ~cacheHit
  /\ ~joinInFlight
  /\ requests < MaxFetches
  /\ LET p == requests + 1 IN
       /\ fetchPromise' = [id |-> p]
       /\ awaited' = [awaited EXCEPT ![c] = [id |-> p]]
       /\ fetches' = [fetches EXCEPT ![p] =
                        [NoFetch EXCEPT !.state = "pending", !.startInv = invalidations]]
       /\ waiters' = [waiters EXCEPT ![p] = <<c>>]
       /\ requests' = p
  /\ pc' = [pc EXCEPT ![c] = "initiated"]
  /\ UNCHANGED << settingsCache, objects, microtasks, settings, isLoading,
                  error, cacheSource, populated, servedStale >>

\* The effect of a rendered hook instance: isMounted = true; fetchSettings().
fetchSettings(c) ==
  /\ UNCHANGED << mapperVars, editorVars >>
  /\ microtasks = <<>>
  /\ pc[c] = "rendered"
  /\ \A d \in Consumers : d < c => pc[d] \notin {"new", "rendered"}
  /\ isMounted' = [isMounted EXCEPT ![c] = TRUE]
  /\ lastCacheOp' = "getSettings"
  /\ UNCHANGED invalidations
  /\ \/ cachedPath(c)
     \/ joinPath(c)
     \/ startPath(c)

\* The network answers fetch p: its promise settles, and the continuations of
\* its awaiters become runnable in the order they awaited.
fetchResponse(p) ==
  /\ UNCHANGED << mapperVars, editorVars >>
  /\ microtasks = <<>>
  /\ fetches[p].state = "pending"
  /\ \E resp \in Responses :
       LET out == fetchOutcome(resp, p) IN
         /\ fetches' = [fetches EXCEPT ![p] =
                          [@ EXCEPT !.state = IF out.ok THEN "fulfilled" ELSE "rejected",
                                    !.value = out.value,
                                    !.error = out.error,
                                    !.resp = resp]]
         /\ objects' = [objects EXCEPT ![p] = out.built]
  /\ microtasks' = waiters[p]
  /\ lastCacheOp' = "settle"
  /\ UNCHANGED << settingsCache, fetchPromise, waiters, pc, isMounted, settings,
                  isLoading, error, awaited, requests, invalidations,
                  cacheSource, populated, servedStale >>

\* The error the initiator's catch stores.
initiatorCatchError(err) == asError(err)

\* The error a joiner's catch stores.
joinerCatchError_NewError(err) == UnknownError

joinerCatchError_Swallows(err) == NULL

joinerCatchError(err) == asError(err)

\* The initiator after "await fetchPromise": try, catch and finally.
initiatorContinuation_CacheIfMounted(c) ==
  LET p == awaited[c].id
      f == fetches[p]
  IN
  /\ pc[c] = "initiated"
  /\ IF f.state = "fulfilled"
       THEN IF isMounted[c]
              THEN /\ settingsCache' = f.value
                   /\ cacheSource' = p
                   /\ populated' = TRUE
                   /\ settings' = [settings EXCEPT ![c] = f.value]
                   /\ error' = [error EXCEPT ![c] = NULL]
              ELSE UNCHANGED << settingsCache, cacheSource, populated, settings, error >>
       ELSE /\ UNCHANGED << settingsCache, cacheSource, populated >>
            /\ IF isMounted[c]
                 THEN /\ error' = [error EXCEPT ![c] = initiatorCatchError(f.error)]
                      /\ settings' = [settings EXCEPT ![c] = DefaultRef]
                 ELSE UNCHANGED << settings, error >>
  /\ fetchPromise' = NULL
  /\ isLoading' = [isLoading EXCEPT ![c] = IF isMounted[c] THEN FALSE ELSE @]

initiatorContinuation_GuardedClear(c) ==
  LET p == awaited[c].id
      f == fetches[p]
  IN
  /\ pc[c] = "initiated"
  /\ IF f.state = "fulfilled"
       THEN /\ settingsCache' = f.value
            /\ cacheSource' = p
            /\ populated' = TRUE
            /\ IF isMounted[c]
                 THEN /\ settings' = [settings EXCEPT ![c] = f.value]
                      /\ error' = [error EXCEPT ![c] = NULL]
                 ELSE UNCHANGED << settings, error >>
       ELSE /\ UNCHANGED << settingsCache, cacheSource, populated >>
            /\ IF isMounted[c]
                 THEN /\ error' = [error EXCEPT ![c] = initiatorCatchError(f.error)]
                      /\ settings' = [settings EXCEPT ![c] = DefaultRef]
                 ELSE UNCHANGED << settings, error >>
  /\ fetchPromise' = IF isMounted[c] THEN NULL ELSE fetchPromise
  /\ isLoading' = [isLoading EXCEPT ![c] = IF isMounted[c] THEN FALSE ELSE @]

initiatorContinuation(c) ==
  LET p == awaited[c].id
      f == fetches[p]
  IN
  /\ pc[c] = "initiated"
  /\ IF f.state = "fulfilled"
       THEN /\ settingsCache' = f.value
            /\ cacheSource' = p
            /\ populated' = TRUE
            /\ IF isMounted[c]
                 THEN /\ settings' = [settings EXCEPT ![c] = f.value]
                      /\ error' = [error EXCEPT ![c] = NULL]
                 ELSE UNCHANGED << settings, error >>
       ELSE /\ UNCHANGED << settingsCache, cacheSource, populated >>
            /\ IF isMounted[c]
                 THEN /\ error' = [error EXCEPT ![c] = initiatorCatchError(f.error)]
                      /\ settings' = [settings EXCEPT ![c] = DefaultRef]
                 ELSE UNCHANGED << settings, error >>
  /\ fetchPromise' = NULL
  /\ isLoading' = [isLoading EXCEPT ![c] = IF isMounted[c] THEN FALSE ELSE @]

\* A joiner after "await fetchPromise": try and catch.
joinerContinuation_KeepsLoading(c) ==
  LET p == awaited[c].id
      f == fetches[p]
  IN
  /\ pc[c] = "joined"
  /\ IF f.state = "fulfilled"
       THEN /\ settings' = [settings EXCEPT ![c] = IF isMounted[c] THEN f.value ELSE @]
            /\ error' = error
       ELSE /\ error' = [error EXCEPT ![c] =
                            IF isMounted[c] THEN joinerCatchError(f.error) ELSE @]
            /\ settings' = settings
  /\ isLoading' = isLoading
  /\ UNCHANGED << settingsCache, fetchPromise, cacheSource, populated >>

joinerContinuation_Unguarded(c) ==
  LET p == awaited[c].id
      f == fetches[p]
  IN
  /\ pc[c] = "joined"
  /\ IF f.state = "fulfilled"
       THEN /\ settings' = [settings EXCEPT ![c] = f.value]
            /\ error' = error
       ELSE /\ error' = [error EXCEPT ![c] = joinerCatchError(f.error)]
            /\ settings' = settings
  /\ isLoading' = [isLoading EXCEPT ![c] = FALSE]
  /\ UNCHANGED << settingsCache, fetchPromise, cacheSource, populated >>

joinerContinuation(c) ==
  LET p == awaited[c].id
      f == fetches[p]
  IN
  /\ pc[c] = "joined"
  /\ IF f.state = "fulfilled"
       THEN /\ settings' = [settings EXCEPT ![c] = IF isMounted[c] THEN f.value ELSE @]
            /\ error' = error
       ELSE /\ error' = [error EXCEPT ![c] =
                            IF isMounted[c] THEN joinerCatchError(f.error) ELSE @]
            /\ settings' = settings
  /\ isLoading' = [isLoading EXCEPT ![c] = IF isMounted[c] THEN FALSE ELSE @]
  /\ UNCHANGED << settingsCache, fetchPromise, cacheSource, populated >>

\* One microtask: the continuation of the consumer at the head of the queue.
resume(c) ==
  /\ UNCHANGED << mapperVars, editorVars >>
  /\ microtasks # <<>>
  /\ c = Head(microtasks)
  /\ microtasks' = Tail(microtasks)
  /\ pc' = [pc EXCEPT ![c] = IF pc[c] = "initiated" THEN "initiatorDone" ELSE "joinerDone"]
  /\ \/ initiatorContinuation(c)
     \/ joinerContinuation(c)
  /\ UNCHANGED << fetches, objects, waiters, isMounted, awaited, requests, invalidations,
                  lastCacheOp, servedStale >>

\* The effect's cleanup, run when the component unmounts: isMounted = false.
\* After the continuation has run nothing reads the flag, so only the
\* unmount of a consumer that still awaits is a step.
unmount_Cancels(c) ==
  /\ UNCHANGED << mapperVars, editorVars >>
  /\ microtasks = <<>>
  /\ pc[c] \in {"joined", "initiated"}
  /\ isMounted[c]
  /\ isMounted' = [isMounted EXCEPT ![c] = FALSE]
  /\ waiters' = [waiters EXCEPT ![awaited[c].id] = SelectSeq(@, LAMBDA d : d # c)]
  /\ UNCHANGED << settingsCache, fetchPromise, fetches, objects, microtasks, pc,
                  settings, isLoading, error, awaited, requests, invalidations,
                  cacheSource, populated, lastCacheOp, servedStale >>

unmount(c) ==
  /\ UNCHANGED << mapperVars, editorVars >>
  /\ microtasks = <<>>
  /\ pc[c] \in {"joined", "initiated"}
  /\ isMounted[c]
  /\ isMounted' = [isMounted EXCEPT ![c] = FALSE]
  /\ UNCHANGED << settingsCache, fetchPromise, fetches, objects, waiters, microtasks, pc,
                  settings, isLoading, error, awaited, requests, invalidations,
                  cacheSource, populated, lastCacheOp, servedStale >>

clearSiteSettingsCache_KeepsCache ==
  /\ UNCHANGED << mapperVars, editorVars >>
  /\ microtasks = <<>>
  /\ invalidations < MaxInvalidations
  /\ fetchPromise' = NULL
  /\ invalidations' = invalidations + 1
  /\ lastCacheOp' = "invalidate"
  /\ UNCHANGED << settingsCache, cacheSource, fetches, objects, waiters, microtasks, pc,
                  isMounted, settings, isLoading, error, awaited, requests,
                  populated, servedStale >>

clearSiteSettingsCache ==
  /\ UNCHANGED << mapperVars, editorVars >>
  /\ microtasks = <<>>
  /\ invalidations < MaxInvalidations
  /\ settingsCache' = NULL
  /\ fetchPromise' = NULL
  /\ cacheSource' = 0
  /\ invalidations' = invalidations + 1
  /\ lastCacheOp' = "invalidate"
  /\ UNCHANGED << fetches, objects, waiters, microtasks, pc, isMounted,
                  settings, isLoading, error, awaited, requests, populated,
                  servedStale >>

Next ==
  \/ \E c \in Consumers : render(c)
  \/ \E c \in Consumers : fetchSettings(c)
  \/ \E p \in FetchIds : fetchResponse(p)
  \/ \E c \in Consumers : resume(c)
  \/ \E c \in Consumers : unmount(c)
  \/ clearSiteSettingsCache

Spec == Init /\ [][Next]_vars

\* The cache when every request is answered: the network answers every
\* pending fetch, and the engine runs every runnable continuation.
FairSpec ==
  /\ Init
  /\ [][Next]_vars
  /\ \A p \in FetchIds : WF_vars(fetchResponse(p))
  /\ \A c \in Consumers : WF_vars(resume(c))

\* --------------------------------------------------------- the two mappers
\* rowToSiteSettings applied to the row read from the store.
mapRow ==
  /\ mapped = NULL
  /\ mapped' = rowToSiteSettings(row)
  /\ UNCHANGED << row, written, cleared >>
  /\ UNCHANGED << cacheVars, editorVars >>

\* A caller empties text field f of the settings it is about to write.
clearField(f) ==
  /\ mapped # NULL
  /\ written = NULL
  /\ Cardinality(cleared) < MaxCleared
  /\ mapped[f] # ""
  /\ mapped' = [mapped EXCEPT ![f] = ""]
  /\ cleared' = cleared \cup {f}
  /\ UNCHANGED << row, written >>
  /\ UNCHANGED << cacheVars, editorVars >>

\* siteSettingsToRow applied to the settings.
writeRow ==
  /\ mapped # NULL
  /\ written = NULL
  /\ written' = siteSettingsToRow(mapped)
  /\ UNCHANGED << row, mapped, cleared >>
  /\ UNCHANGED << cacheVars, editorVars >>

MapperInit ==
  /\ CacheInit
  /\ EditorIdle
  /\ row \in MapperRows
  /\ mapped = NULL
  /\ written = NULL
  /\ cleared = {}

MapperNext ==
  \/ mapRow
  \/ \E f \in TextFields : clearField(f)
  \/ writeRow

MapperSpec == MapperInit /\ [][MapperNext]_vars

\* ------------------------------------------------------------- the editors
\* PageContentEditor renders: one editor is selected by pageKey.
renderEditor ==
  /\ editor = "none"
  /\ editor' = selectEditor(pageKey)
  /\ UNCHANGED << pageKey, content, typed, onChangeCalls, itemsKept, edits, arrayOp, fieldEdits >>
  /\ UNCHANGED << cacheVars, mapperVars >>

\* onChange(doc): the parent stores doc and passes it back as content.
onChange(doc) ==
  /\ onChangeCalls' = << doc >>
  /\ content' = doc

\* update(key, value) of a specific editor: the document it passes on.
update_StaleContent(key, value) == Spread(StoredContent(pageKey), key, value)

update(key, value) == Spread(content, key, value)

\* History: value v was written to the field at path; an operation that adds or
\* removes an item was invoked.  A path is <<kind, section or array, field,
\* index>>.
Path(kind, s, f, i) == << kind, s, f, i >>

FieldEdited(path, v) ==
  fieldEdits' =
    [fieldEdits EXCEPT !.last =
       IF fieldEdits.only
         THEN [q \in DOMAIN @ \cup {path} |-> IF q = path THEN v ELSE @[q]]
         ELSE << >>]

ItemsEdited == fieldEdits' = [only |-> FALSE, last |-> << >>]

\* History: the handler invoked no operation of an ArrayEditor, or invoked
\* operation op of ArrayEditor a for index i.
NoArrayOp == arrayOp' = [op |-> "none", array |-> "", index |-> 0]
ArrayOp(op, a, i) == arrayOp' = [op |-> op, array |-> a, index |-> i]

\* A change handler of a specific editor runs.
Handler ==
  /\ editor \in DOMAIN SpecificEditors
  /\ edits < MaxEdits
  /\ edits' = edits + 1
  /\ UNCHANGED << pageKey, editor, typed >>
  /\ UNCHANGED << cacheVars, mapperVars >>

\* The input bound to content[s][f] changes to v.
changeText(s, f, v) ==
  /\ Handler
  /\ <<s, f>> \in SpecificEditors[editor].text
  /\ itemsKept' = itemsKept
  /\ NoArrayOp
  /\ FieldEdited(Path("text", s, f, 0), v)
  /\ onChange(update(s, Spread(content[s], f, v)))

\* The textarea bound to the list content[l.section][l.field] changes to v.
changeList(l, v) ==
  /\ Handler
  /\ l \in SpecificEditors[editor].lists
  /\ itemsKept' = itemsKept
  /\ NoArrayOp
  /\ FieldEdited(Path("list", l.section, l.field, 0), filterBoolean(split(v, l.sep)))
  /\ onChange(update(l.section,
                     Spread(content[l.section], l.field,
                            filterBoolean(split(v, l.sep)))))

\* The input bound to content[k] changes to v.
changeTopText(k, v) ==
  /\ Handler
  /\ k \in SpecificEditors[editor].topText
  /\ itemsKept' = itemsKept
  /\ NoArrayOp
  /\ FieldEdited(Path("top", k, k, 0), v)
  /\ onChange(Spread(content, k, v))

\* The ArrayEditor named a of the rendered editor: its section if it is
\* nested, its items prop and its onChange prop.
HasArray(a) ==
  \/ a \in SpecificEditors[editor].topArrays
  \/ \E p \in SpecificEditors[editor].nestedArrays : p[2] = a

SectionOfArray(a) ==
  (CHOOSE p \in SpecificEditors[editor].nestedArrays : p[2] = a)[1]

arrayItems(a) ==
  IF a \in SpecificEditors[editor].topArrays
    THEN content[a]
    ELSE content[SectionOfArray(a)][a]

arrayOnChange(a, items) ==
  IF a \in SpecificEditors[editor].topArrays
    THEN update(a, items)
    ELSE update(SectionOfArray(a), Spread(content[SectionOfArray(a)], a, items))

\* The Add button of ArrayEditor a.
addArrayItem(a) ==
  /\ Handler
  /\ HasArray(a)
  /\ Len(arrayItems(a)) < MaxItems
  /\ onChange(arrayOnChange(a, addItem(arrayItems(a), NewItemOf[a])))
  /\ itemsKept' = (addItemInput(arrayItems(a), NewItemOf[a]) = arrayItems(a))
  /\ ArrayOp("addItem", a, 0)
  /\ ItemsEdited

\* The remove button of item i of ArrayEditor a.
removeArrayItem(a, i) ==
  /\ Handler
  /\ HasArray(a)
  /\ i \in 1..Len(arrayItems(a))
  /\ onChange(arrayOnChange(a, removeItem(arrayItems(a), i)))
  /\ itemsKept' = (removeItemInput(arrayItems(a), i) = arrayItems(a))
  /\ ArrayOp("removeItem", a, i)
  /\ ItemsEdited

\* The input bound to field f of item i of ArrayEditor a changes to v.
changeItemField(a, i, f, v) ==
  /\ Handler
  /\ HasArray(a)
  /\ i \in 1..Len(arrayItems(a))
  /\ f \in ItemFields[a]
  /\ onChange(arrayOnChange(a,
       updateItem(arrayItems(a), i, Spread(arrayItems(a)[i], f, v))))
  /\ itemsKept' =
       (updateItemInput(arrayItems(a), i, Spread(arrayItems(a)[i], f, v)) = arrayItems(a))
  /\ ArrayOp("updateItem", a, i)
  /\ FieldEdited(Path("item", a, f, i), v)

\* The user changes the text of the fallback editor's textarea to t: a
\* change event with e.target.value = t is dispatched.
typeText(t) ==
  /\ editor = "Fallback"
  /\ edits < MaxEdits
  /\ typed = NULL
  /\ typed' = Some(t)
  /\ UNCHANGED << pageKey, editor, content, onChangeCalls, itemsKept, edits, arrayOp, fieldEdits >>
  /\ UNCHANGED << cacheVars, mapperVars >>

\* The change handler of the fallback editor's textarea:
\* try { onChange(JSON.parse(e.target.value)) } catch {}.  The textarea is
\* then rendered with the text of content again.
fallbackInput ==
  /\ editor = "Fallback"
  /\ typed # NULL
  /\ edits' = edits + 1
  /\ LET r == JSONparse(typed[1]) IN
       IF r.ok
         THEN onChange(r.value)
         ELSE /\ onChangeCalls' = <<>>
              /\ content' = content
  /\ typed' = NULL
  /\ UNCHANGED << pageKey, editor, itemsKept, arrayOp, fieldEdits >>
  /\ UNCHANGED << cacheVars, mapperVars >>

EditorInit ==
  /\ CacheInit
  /\ MapperIdle
  /\ pageKey \in PageKeys
  /\ editor = "none"
  /\ content = StoredContent(pageKey)
  /\ typed = NULL
  /\ onChangeCalls = <<>>
  /\ itemsKept = TRUE
  /\ edits = 0
  /\ arrayOp = [op |-> "none", array |-> "", index |-> 0]
  /\ fieldEdits = [only |-> TRUE, last |-> << >>]

AllTextPaths == UNION {SpecificEditors[e].text : e \in DOMAIN SpecificEditors}
AllLists == UNION {SpecificEditors[e].lists : e \in DOMAIN SpecificEditors}
AllTopText == UNION {SpecificEditors[e].topText : e \in DOMAIN SpecificEditors}
AllArrays == DOMAIN NewItemOf

EditorNext ==
  \/ renderEditor
  \/ \E p \in AllTextPaths, v \in PlainInputs : changeText(p[1], p[2], v)
  \/ \E l \in AllLists, v \in Texts : changeList(l, v)
  \/ \E k \in AllTopText, v \in PlainInputs : changeTopText(k, v)
  \/ \E a \in AllArrays : addArrayItem(a)
  \/ \E a \in AllArrays, i \in 1..MaxItems : removeArrayItem(a, i)
  \/ \E a \in AllArrays, i \in 1..MaxItems :
       \E f \in ItemFields[a], v \in PlainInputs : changeItemField(a, i, f, v)
  \/ editor = "Fallback" /\ typed = NULL /\ \E t \in JsonTexts : typeText(t)
  \/ fallbackInput

EditorSpec == EditorInit /\ [][EditorNext]_vars

\* ------------------------------------------------------------------ claims
\* Consumer c awaits a fetch: it called fetchSettings and was not resumed yet.
Awaiting(c) == pc[c] \in {"initiated", "joined"}

\* Consumer c was resumed with the outcome of the fetch it awaited while it
\* was mounted, so the outcome was stored in its hook state.
Received(c) == pc[c] \in {"initiatorDone", "joinerDone"} /\ isMounted[c]

\* The fetch consumer c awaits or awaited.
FetchOf(c) == fetches[awaited[c].id]

Outstanding == {p \in FetchIds : fetches[p].state = "pending"}

ZeroRows(resp) == resp.isArray /\ Len(resp.data) = 0
OneRow(resp) == resp.isArray /\ Len(resp.data) = 1

\* C1: single-flight.  While clearSiteSettingsCache has not been called, all
\* consumers that wait at the same time wait for one and the same request,
\* which is the only one outstanding, and all consumers that received the
\* outcome of one request hold the same settings value.
C1_SingleFlight ==
  invalidations = 0 =>
    /\ \A c, d \in Consumers :
         Awaiting(c) /\ Awaiting(d) => awaited[c] = awaited[d]
    /\ \A c \in Consumers : Awaiting(c) => Outstanding \subseteq {awaited[c].id}
    /\ \A c, d \in Consumers :
         Received(c) /\ Received(d) /\ awaited[c] = awaited[d]
           => Deref(settings[c]) = Deref(settings[d])

\* Three consumers received the row of the single request issued.
C1_Witness ==
  /\ invalidations = 0
  /\ requests = 1
  /\ \A c \in 1..3 : Received(c) /\ awaited[c] = [id |-> 1]
  /\ \E c, d \in 1..3 : pc[c] = "initiatorDone" /\ pc[d] = "joinerDone"
  /\ OneRow(fetches[1].resp)

\* C2: at most one network fetch is outstanding at a time.
C2_AtMostOneOutstanding == Cardinality(Outstanding) <= 1

\* C3: fast path.  A call of fetchSettings made while settingsCache holds a
\* value issues no request, does not suspend, and stores the cached value in
\* the hook state; it leaves both slots as they are.  A populated
\* settingsCache stays populated in every step that is not a call of
\* clearSiteSettingsCache.
C3_FastPath ==
  [][/\ \A c \in Consumers :
          (settingsCache # NULL /\ pc[c] = "rendered" /\ pc'[c] # "rendered")
            => /\ requests' = requests
               /\ pc'[c] = "done"
               /\ settings'[c] = settingsCache
               /\ ~isLoading'[c]
               /\ settingsCache' = settingsCache
               /\ fetchPromise' = fetchPromise
     /\ (settingsCache # NULL /\ invalidations' = invalidations)
          => settingsCache' # NULL]_vars

\* A consumer was served from a cache that a zero-row fetch had filled with
\* the defaults.
C3_Witness ==
  \E c \in Consumers :
    /\ pc[c] = "done"
    /\ ~isLoading[c]
    /\ settings[c] = settingsCache
    /\ settingsCache = DefaultRef
    /\ cacheSource # 0
    /\ ZeroRows(fetches[cacheSource].resp)

\* C4: after the cache was populated by a fetch, the first call of
\* fetchSettings that follows a call of clearSiteSettingsCache, with no fetch
\* completing between the two, issues exactly one new request.
C4_InvalidateThenGet ==
  [][\A c \in Consumers :
       (populated /\ lastCacheOp = "invalidate"
          /\ pc[c] = "rendered" /\ pc'[c] # "rendered")
         => /\ requests' = requests + 1
            /\ pc'[c] = "initiated"]_vars

\* Fetch 1 populated the cache, the cache was cleared, and the call that
\* followed started fetch 2.
C4_Witness ==
  /\ populated
  /\ invalidations = 1
  /\ lastCacheOp = "getSettings"
  /\ fetches[1].state = "fulfilled"
  /\ fetches[1].startInv = 0
  /\ requests = 2
  /\ fetches[2].state = "pending"
  /\ fetches[2].startInv = 1
  /\ fetchPromise = [id |-> 2]

\* C5: no call of fetchSettings made after a call of clearSiteSettingsCache
\* is answered from a fetch that was started before that call.  (The first
\* call after an invalidate that issues no request is answered from such a
\* fetch, so this also states that the next call re-fetches.)
C5_NeverServedStale == \A c \in Consumers : ~servedStale[c]

\* C6: every consumer that received the outcome of a fulfilled fetch holds
\* no error and holds the defaults when the response had zero rows, and
\* rowToSiteSettings of the row when it had one.
C6_SuccessValue ==
  \A c \in Consumers :
    (Received(c) /\ FetchOf(c).state = "fulfilled")
      => /\ error[c] = NULL
         /\ ZeroRows(FetchOf(c).resp)
              => Deref(settings[c]) = DEFAULT_SITE_SETTINGS
         /\ OneRow(FetchOf(c).resp)
              => Deref(settings[c]) = rowToSiteSettings(FetchOf(c).resp.data[1])

\* An initiator and a joiner received a row, and some consumer a zero-row
\* answer.
C6_Witness ==
  /\ \E c, d \in Consumers :
       /\ pc[c] = "initiatorDone" /\ pc[d] = "joinerDone"
       /\ Received(c) /\ Received(d)
       /\ awaited[c] = awaited[d]
       /\ OneRow(FetchOf(c).resp)
  /\ \E c \in Consumers :
       Received(c) /\ FetchOf(c).state = "fulfilled" /\ ZeroRows(FetchOf(c).resp)

\* C7: failure fallback.  A consumer that is resumed with a rejected fetch
\* while mounted ends with the defaults and a non-null error, and when the
\* initiator has processed the failure the cached-value slot is empty.
C7_FailureFallback ==
  [][\A c \in Consumers :
       (Awaiting(c) /\ ~Awaiting(c)' /\ FetchOf(c).state = "rejected")
         => /\ isMounted[c]
              => /\ Deref(settings[c])' = DEFAULT_SITE_SETTINGS
                 /\ error'[c] # NULL
            /\ pc[c] = "initiated" => settingsCache' = NULL]_vars

\* C8: every consumer that received the outcome of a rejected fetch holds the
\* error the fetch was rejected with, so the initiator and the joiners of one
\* fetch hold the same error.
C8_SameError ==
  \A c \in Consumers :
    (Received(c) /\ FetchOf(c).state = "rejected")
      => /\ error[c] = FetchOf(c).error
         /\ \A d \in Consumers :
              (Received(d) /\ awaited[d] = awaited[c]) => error[d] = error[c]

\* The initiator and a joiner of one rejected fetch received its error.
C8_Witness ==
  \E c, d \in Consumers :
    /\ pc[c] = "initiatorDone" /\ pc[d] = "joinerDone"
    /\ Received(c) /\ Received(d)
    /\ awaited[c] = awaited[d]
    /\ FetchOf(c).state = "rejected"
    /\ error[c] # NULL

Settled(p) == fetches[p].state \in {"fulfilled", "rejected"}

\* The consumers that received the outcome of fetch p.
ReceiversOf(p) == {c \in Consumers : Received(c) /\ awaited[c] = [id |-> p]}

\* The fetch ended in an error state: its promise is rejected, every
\* consumer that received its outcome holds an error, and its outcome is not
\* what settingsCache holds.
EndedInError(p) ==
  /\ fetches[p].state = "rejected"
  /\ \A c \in ReceiversOf(p) : error[c] # NULL
  /\ cacheSource # p

TransportFailure(resp) == resp.netError \/ ~ResponseOk(resp)
Unparseable(resp) == ~resp.netError /\ ResponseOk(resp) /\ ~resp.jsonOk
NotAnArray(resp) ==
  ~resp.netError /\ ResponseOk(resp) /\ resp.jsonOk /\ ~resp.isArray

C10_SettingsPopulated ==
  \A c \in Consumers :
    pc[c] # "new" =>
      /\ settings[c] # NULL
      /\ \/ settings[c] = DefaultRef
         \/ \E p \in FetchIds :
              fetches[p].state = "fulfilled" /\ settings[c] = fetches[p].value
      /\ Deref(settings[c]) # NULL
      /\ DOMAIN Deref(settings[c]) = DOMAIN DEFAULT_SITE_SETTINGS

\* At one time a consumer is loading, one holds a fetched row and one failed.
C10_Witness ==
  \E c, d, e \in Consumers :
    /\ pc[c] \in {"rendered", "initiated", "joined"} /\ isLoading[c]
    /\ Received(d) /\ settings[d] # DefaultRef
    /\ Received(e) /\ error[e] # NULL

\* C11: isLoading is true only until the consumer's first resolution.  A
\* mounted consumer that waits on a fetch has isLoading true; a consumer that
\* was served from the cache, or that received the outcome of its fetch, has
\* isLoading false; and once isLoading is false after the first render it
\* never becomes true again.
C11_LoadingUntilResolved ==
  [][\A c \in Consumers :
       /\ (Awaiting(c) /\ isMounted[c]) => isLoading[c]
       /\ (Received(c) \/ pc[c] = "done") => ~isLoading[c]
       /\ (pc[c] # "new" /\ ~isLoading[c]) => ~isLoading'[c]]_vars

\* C12: no failure escapes the hook.  Every rejected fetch promise has an
\* awaiter, and every awaiter runs inside try/catch, so the rejection is
\* handled; every mounted consumer that was resumed with a rejection holds an
\* Error in its error state next to a settings object with every field.
C12_FailureDelivered ==
  /\ \A p \in FetchIds : fetches[p].state = "rejected" => waiters[p] # <<>>
  /\ \A c \in Consumers :
       (Received(c) /\ FetchOf(c).state = "rejected")
         => /\ error[c] # NULL
            /\ error[c].isError
            /\ settings[c] # NULL
            /\ DOMAIN Deref(settings[c]) = DOMAIN DEFAULT_SITE_SETTINGS

\* After a clearSiteSettingsCache, an initiator and a joiner of one fetch
\* were both resumed with its rejection and hold the error.
C12_Witness ==
  \E c, d \in Consumers :
    /\ pc[c] = "initiatorDone" /\ pc[d] = "joinerDone"
    /\ Received(c) /\ Received(d)
    /\ awaited[c] = awaited[d]
    /\ FetchOf(c).state = "rejected"
    /\ error[c] # NULL /\ error[d] # NULL
    /\ invalidations > 0

\* Consumer c's continuation runs in this step, and c was unmounted while it
\* awaited.
ResumedUnmounted(c) == Awaiting(c) /\ pc'[c] # pc[c] /\ ~isMounted[c]

\* C13 as stated: the continuation of a consumer that was unmounted while it
\* awaited changes no state that others can see: neither its hook state nor
\* the two module slots.
C13_NoSharedMutation ==
  [][\A c \in Consumers :
       ResumedUnmounted(c)
         => /\ settings'[c] = settings[c]
            /\ isLoading'[c] = isLoading[c]
            /\ error'[c] = error[c]
            /\ settingsCache' = settingsCache
            /\ fetchPromise' = fetchPromise]_vars

\* C13: the continuation of a consumer that was unmounted while it awaited
\* leaves the consumer's hook state (settings, isLoading, error) as it was;
\* a joiner's continuation leaves the two module slots as they were too.
C13_HookStateGuarded ==
  [][\A c \in Consumers :
       ResumedUnmounted(c)
         => /\ settings'[c] = settings[c]
            /\ isLoading'[c] = isLoading[c]
            /\ error'[c] = error[c]
            /\ pc[c] = "joined"
                 => /\ settingsCache' = settingsCache
                    /\ fetchPromise' = fetchPromise]_vars

\* An initiator and a joiner were unmounted while they awaited and then
\* resumed: their hook state still shows the loading state they rendered
\* with, and the initiator has stored the fetched value in settingsCache.
C13_Witness ==
  \E c, d \in Consumers :
    /\ pc[c] = "initiatorDone" /\ pc[d] = "joinerDone"
    /\ ~isMounted[c] /\ ~isMounted[d]
    /\ isLoading[c] /\ isLoading[d]
    /\ error[c] = NULL /\ error[d] = NULL
    /\ cacheSource = awaited[c].id
    /\ settingsCache # NULL

\* Column col of row r is null or empty.
IsBlank(r, col) ==
  \/ r[col] = NULL
  \/ col \in TextColumns /\ r[col] = Some("")
  \/ col \in ArrayColumns /\ Len(r[col][1]) = 0

\* Every nullable column of row r holds a non-empty value.
Populated(r) == \A col \in NullableColumns : ~IsBlank(r, col)

\* The settings were made of the row and written back as they were made.
RoundTrip == written # NULL /\ cleared = {}

\* C14 as stated: for a row with all fields populated,
\* siteSettingsToRow(rowToSiteSettings(row)) has every field of the row, with
\* the row's value.
C14_RoundTripAllFields ==
  (RoundTrip /\ Populated(row))
    => \A col \in DOMAIN row : col \in DOMAIN written /\ written[col] = row[col]

\* C14: for a row with all fields populated,
\* siteSettingsToRow(rowToSiteSettings(row)) has every field of the row but
\* id, settings_key, updated_at and updated_by, with the row's value, and no
\* other field.
C14_RoundTripWrittenFields ==
  (RoundTrip /\ Populated(row))
    => /\ DOMAIN written = DOMAIN row \ UnwrittenColumns
       /\ \A col \in DOMAIN written : written[col] = row[col]

\* A populated row other than RowFull went through both mappers.
C14_Witness ==
  /\ RoundTrip
  /\ Populated(row)
  /\ row.apply_phone_globally = Some(TRUE)
  /\ written.apply_phone_globally = Some(TRUE)
  /\ written.site_name = Some("Acme Law")

\* The settings are as rowToSiteSettings returned them.
Mapped == mapped # NULL /\ cleared = {}

\* C15: rowToSiteSettings is total.  For every row, whichever of its
\* nullable scalar columns are null or empty, the result has every
\* SiteSettings field; a text field holds the stored string if there is a
\* non-empty one and the default otherwise, a boolean field holds the stored
\* boolean if there is one and the default otherwise.
C15_TotalWithDefaults ==
  Mapped =>
    /\ DOMAIN mapped = DOMAIN DEFAULT_SITE_SETTINGS
    /\ \A f \in TextFields :
         mapped[f] = IF IsBlank(row, ColumnOf[f])
                       THEN DEFAULT_SITE_SETTINGS[f]
                       ELSE row[ColumnOf[f]][1]
    /\ \A f \in BooleanFields :
         mapped[f] = IF row[ColumnOf[f]] = NULL
                       THEN DEFAULT_SITE_SETTINGS[f]
                       ELSE row[ColumnOf[f]][1]

\* A row whose nullable columns hold the empty string, the empty array or
\* the boolean RowFull does not hold was mapped: the text fields are the
\* defaults, the booleans are the stored ones.
C15_Witness ==
  /\ Mapped
  /\ row = RowAllEmpty
  /\ mapped.siteName = DEFAULT_SITE_SETTINGS.siteName
  /\ mapped.headScripts = ""
  /\ mapped.applyPhoneGlobally = TRUE
  /\ mapped.siteNoindex = FALSE

\* C16: each of navigationItems, footerAboutLinks, footerPracticeLinks and
\* socialLinks is the default list when the stored array is null or empty
\* and the stored array when it is non-empty; the default lists are
\* non-empty, so the field never is empty.
C16_SequencesNeverEmpty ==
  Mapped =>
    \A f \in ArrayFields :
      /\ mapped[f] = IF IsBlank(row, ColumnOf[f])
                       THEN DEFAULT_SITE_SETTINGS[f]
                       ELSE row[ColumnOf[f]][1]
      /\ Len(DEFAULT_SITE_SETTINGS[f]) > 0
      /\ Len(mapped[f]) > 0

\* A row with an empty navigation_items array and a stored social_links
\* array was mapped.
C16_Witness ==
  /\ Mapped
  /\ row.navigation_items = Some(<<>>)
  /\ mapped.navigationItems = DEFAULT_SITE_SETTINGS.navigationItems
  /\ mapped.socialLinks = RowFull.social_links[1]
  /\ mapped.socialLinks # DEFAULT_SITE_SETTINGS.socialLinks

\* The fields of the produced row.
WrittenColumns == {ColumnOf[f] : f \in DOMAIN ColumnOf}

\* C17 as stated: siteSettingsToRow writes null for every empty text field
\* whose column is nullable, and the value of every other field.
C17_EveryEmptyTextIsNull ==
  written # NULL =>
    /\ DOMAIN written = WrittenColumns
    /\ \A f \in DOMAIN ColumnOf :
         written[ColumnOf[f]] =
           IF f \in TextFields /\ mapped[f] = "" THEN NULL ELSE Some(mapped[f])

\* The text fields siteSettingsToRow writes with "|| null".
OptionalTextFields ==
  {"ga4MeasurementId", "googleAdsId", "googleAdsConversionLabel",
   "headScripts", "footerScripts"}

\* C17: siteSettingsToRow writes null for an empty ga4MeasurementId,
\* googleAdsId, googleAdsConversionLabel, headScripts or footerScripts, and
\* the value of every other field, an empty string included, under its
\* column name.
C17_EmptyOptionalTextIsNull ==
  written # NULL =>
    /\ DOMAIN written = WrittenColumns
    /\ \A f \in DOMAIN ColumnOf :
         written[ColumnOf[f]] =
           IF f \in OptionalTextFields /\ mapped[f] = ""
             THEN NULL
             ELSE Some(mapped[f])

\* Settings with an empty headScripts and an emptied logoUrl were written:
\* head_scripts is null and logo_url is the empty string.
C17_Witness ==
  /\ written # NULL
  /\ mapped.headScripts = ""
  /\ written.head_scripts = NULL
  /\ mapped.logoUrl = ""
  /\ written.logo_url = Some("")
  /\ written.ga4_measurement_id = Some("G-1")

\* The handler that ran called onChange once; Emitted is its argument.
CalledOnce == Len(onChangeCalls') = 1
Emitted == onChangeCalls'[1]

\* Documents a and b have the same keys, and the same values but under k.
SameButKey(a, b, k) ==
  /\ DOMAIN b = DOMAIN a
  /\ \A j \in DOMAIN a \ {k} : b[j] = a[j]

\* Documents a and b are the same but in field f of section s.
SameButField(a, b, s, f) ==
  /\ SameButKey(a, b, s)
  /\ SameButKey(a[s], b[s], f)

\* The items of the array named a in document doc of the rendered editor.
ItemsIn(doc, a) ==
  IF a \in SpecificEditors[editor].topArrays
    THEN doc[a]
    ELSE doc[SectionOfArray(a)][a]

\* Documents a and b are the same but in field f of item i of array arr.
SameButItemField(a, b, arr, i, f) ==
  /\ IF arr \in SpecificEditors[editor].topArrays
       THEN SameButKey(a, b, arr)
       ELSE SameButField(a, b, SectionOfArray(arr), arr)
  /\ Len(ItemsIn(b, arr)) = Len(ItemsIn(a, arr))
  /\ \A j \in 1..Len(ItemsIn(a, arr)) :
       IF j = i
         THEN SameButKey(ItemsIn(a, arr)[j], ItemsIn(b, arr)[j], f)
         ELSE ItemsIn(b, arr)[j] = ItemsIn(a, arr)[j]

\* C18: editor immutability.  In each of the four specific editors, the
\* change handler of each input, called with the value v, calls onChange
\* once with a document in which the field the input is bound to holds v
\* (for a textarea bound to a list of strings: the list whose lines are v)
\* and everything else is as in content.
C18_FieldEqualsInput ==
  [][/\ \A p \in AllTextPaths, v \in PlainInputs :
          changeText(p[1], p[2], v)
            => /\ CalledOnce
               /\ Emitted[p[1]][p[2]] = v
               /\ SameButField(content, Emitted, p[1], p[2])
     /\ \A l \in AllLists, v \in Texts :
          changeList(l, v)
            => /\ CalledOnce
               /\ join(Emitted[l.section][l.field], l.sep) = v
               /\ SameButField(content, Emitted, l.section, l.field)
     /\ \A k \in AllTopText, v \in PlainInputs :
          changeTopText(k, v)
            => /\ CalledOnce
               /\ Emitted[k] = v
               /\ SameButKey(content, Emitted, k)
     /\ \A a \in AllArrays, i \in 1..MaxItems :
          \A f \in ItemFields[a], v \in PlainInputs :
            changeItemField(a, i, f, v)
              => /\ CalledOnce
                 /\ ItemsIn(Emitted, a)[i][f] = v
                 /\ SameButItemField(content, Emitted, a, i, f)]_vars

\* The JSON values whose text has at most MaxJsonLen tokens, and the text of
\* a JSON value.
RECURSIVE JsonValuesOfDepth(_)
JsonValuesOfDepth(d) ==
  IF d = 0 THEN {JsonNumber, JsonObject, JsonArray(<<>>)}
  ELSE LET inner == JsonValuesOfDepth(d - 1) IN
         inner \cup
           {JsonArray(items) :
              items \in UNION {[1..n -> inner] : n \in 1..((MaxJsonLen - 1) \div 2)}}

JsonDocs == JsonValuesOfDepth(MaxJsonLen \div 2)

RECURSIVE JsonText(_)
JsonText(v) ==
  IF v.type = "number" THEN << "1" >>
  ELSE IF v.type = "object" THEN << "{", "}" >>
  ELSE << "[" >>
         \o join([j \in 1..Len(v.items) |-> JsonText(v.items[j])], << "," >>)
         \o << "]" >>

WellFormed(t) == \E v \in JsonDocs : JsonText(v) = t
DocumentOf(t) == CHOOSE v \in JsonDocs : JsonText(v) = t

\* C19: fallback parse-guard.  In the fallback editor a text that is not the
\* text of a JSON value calls onChange not at all and leaves content as it
\* is; the text of a JSON value calls onChange once, with that value.
C19_ParseGuard ==
  [][(editor = "Fallback" /\ typed # NULL /\ typed' = NULL)
       => IF WellFormed(typed[1])
            THEN /\ onChangeCalls' = << DocumentOf(typed[1]) >>
                 /\ content' = DocumentOf(typed[1])
            ELSE /\ onChangeCalls' = <<>>
                 /\ content' = content]_vars

\* The fallback editor took the text [1] and then a text that is no JSON:
\* the second input called nothing and the parsed array is still the
\* content.
C19_Witness ==
  /\ editor = "Fallback"
  /\ edits = 2
  /\ typed = NULL
  /\ onChangeCalls = <<>>
  /\ content = JsonArray(<< JsonNumber >>)

\* C20: dispatch is total and deterministic.  The rendered editor is one of
\* the five; it is the Home editor exactly for "/" and "/home", the About
\* editor exactly for "/about", the Contact editor exactly for "/contact",
\* the PracticeAreas editor exactly for "/practice-areas", and the fallback
\* for every other key, a key that is no string included.
C20_DispatchTotal ==
  editor # "none" =>
    /\ editor \in Editors
    /\ (editor = "HomePageEditor")
         <=> (pageKey \in {StringKey("/"), StringKey("/home")})
    /\ (editor = "AboutPageEditor") <=> (pageKey = StringKey("/about"))
    /\ (editor = "ContactPageEditor") <=> (pageKey = StringKey("/contact"))
    /\ (editor = "PracticeAreasPageEditor")
         <=> (pageKey = StringKey("/practice-areas"))
    /\ (editor = "Fallback")
         <=> (pageKey \notin {StringKey("/"), StringKey("/home"),
                              StringKey("/about"), StringKey("/contact"),
                              StringKey("/practice-areas")})

\* The fallback editor was rendered for a key that is no string, and took
\* an input.
C20_Witness ==
  /\ pageKey = NonStringKey
  /\ editor = "Fallback"
  /\ edits = 1

\* Consumer c, the initiator of a fetch, processes the fetch's outcome in
\* this step.
InitiatorResumed(c) == pc[c] = "initiated" /\ pc'[c] = "initiatorDone"

\* C21: in the step in which the initiator of a fetch processes the outcome,
\* fulfilled or rejected, fetchPromise becomes null, whatever the number of
\* joiners and whether or not the initiator is still mounted; and whenever
\* the last operation on the cache was a fetch settling and its
\* continuations have run, fetchPromise is null.
C21_InFlightCleared ==
  [][/\ \A c \in Consumers : InitiatorResumed(c) => fetchPromise' = NULL
     /\ (lastCacheOp' = "settle" /\ microtasks' = <<>>) => fetchPromise' = NULL]_vars

\* A rejected fetch with two joiners whose initiator had been unmounted was
\* processed, and the slot is empty.
C21_Witness ==
  \E c \in Consumers :
    /\ pc[c] = "initiatorDone"
    /\ ~isMounted[c]
    /\ FetchOf(c).state = "rejected"
    /\ Len(waiters[awaited[c].id]) = 3
    /\ lastCacheOp = "settle"
    /\ microtasks = <<>>
    /\ fetchPromise = NULL

\* Consumer c, a joiner of a fetch, processes the fetch's outcome in this
\* step.
JoinerResumed(c) == pc[c] = "joined" /\ pc'[c] = "joinerDone"

\* Fetch p settles in this step.
Settles(p) == fetches[p].state = "pending" /\ Settled(p)'

\* C22: no cancellation.  A pending fetch stays pending until the network
\* answers it, whoever is unmounted meanwhile, and a settled fetch keeps its
\* outcome; when it settles, the continuation of every consumer that awaits
\* it, mounted or not, becomes runnable.  The initiator's continuation of a
\* fulfilled fetch stores the fetch's value in settingsCache, and the
\* continuation of a mounted joiner stores the fetch's value on fulfilment,
\* and the fetch's error on rejection, in its hook state.
C22_NoCancellation ==
  [][/\ \A p \in FetchIds :
          /\ fetches[p].state = "pending"
               => \/ fetches'[p] = fetches[p]
                  \/ Settles(p) /\ fetches'[p].resp \in Responses
          /\ Settled(p) => fetches'[p] = fetches[p]
          /\ Settles(p)
               => \A c \in Consumers :
                    (Awaiting(c) /\ awaited[c] = [id |-> p])
                      => \E i \in 1..Len(microtasks') : microtasks'[i] = c
     /\ \A c \in Consumers :
          /\ Awaiting(c) => (Awaiting(c)' => awaited'[c] = awaited[c])
          /\ (InitiatorResumed(c) /\ FetchOf(c).state = "fulfilled")
               => settingsCache' = FetchOf(c).value /\ settingsCache' # NULL
          /\ (JoinerResumed(c) /\ isMounted[c])
               => IF FetchOf(c).state = "fulfilled"
                    THEN settings'[c] = FetchOf(c).value /\ error'[c] = NULL
                    ELSE error'[c] = FetchOf(c).error]_vars

\* The initiator of a fetch and one of its joiners were unmounted while the
\* fetch was pending; the fetch was fulfilled with a row, its value is in
\* settingsCache, and the joiner that stayed mounted holds that value.
C22_Witness ==
  \E c, d, e \in Consumers :
    /\ pc[c] = "initiatorDone" /\ ~isMounted[c]
    /\ pc[d] = "joinerDone" /\ ~isMounted[d]
    /\ pc[e] = "joinerDone" /\ isMounted[e]
    /\ awaited[d] = awaited[c] /\ awaited[e] = awaited[c]
    /\ FetchOf(c).state = "fulfilled"
    /\ OneRow(FetchOf(c).resp)
    /\ settingsCache = FetchOf(c).value
    /\ settings[e] = FetchOf(c).value
    /\ settings[d] = DefaultRef

\* The consumer that started fetch p: the first to await its promise.
InitiatorOf(p) == Head(waiters[p])

\* C23: when the continuation of a joiner runs with the value of a fulfilled
\* fetch, the initiator of that fetch has already run its continuation,
\* settingsCache holds a value and fetchPromise is not the promise of that
\* fetch; and the initiator's continuation writes settingsCache and clears
\* fetchPromise in one step.
C23_NoHalfUpdatedCache ==
  [][\A c \in Consumers :
       /\ (JoinerResumed(c) /\ FetchOf(c).state = "fulfilled")
            => /\ pc[InitiatorOf(awaited[c].id)] = "initiatorDone"
               /\ settingsCache # NULL
               /\ fetchPromise # awaited[c]
       /\ (InitiatorResumed(c) /\ FetchOf(c).state = "fulfilled")
            => settingsCache' # NULL /\ fetchPromise' = NULL]_vars

\* Two joiners were resumed with the value of a fetch whose initiator had
\* been unmounted while the fetch was pending.
C23_Witness ==
  \E c, d, e \in Consumers :
    /\ d # e
    /\ pc[c] = "initiatorDone" /\ ~isMounted[c]
    /\ pc[d] = "joinerDone" /\ pc[e] = "joinerDone"
    /\ awaited[d] = awaited[c] /\ awaited[e] = awaited[c]
    /\ FetchOf(c).state = "fulfilled"
    /\ settings[d] = FetchOf(c).value /\ settings[e] = FetchOf(c).value
    /\ settingsCache # NULL

\* Documents a and b are the same but in the items of array arr.
SameButArray(a, b, arr) ==
  IF arr \in SpecificEditors[editor].topArrays
    THEN SameButKey(a, b, arr)
    ELSE SameButField(a, b, SectionOfArray(arr), arr)

C25_StoredFalseKept ==
  Mapped =>
    /\ \A f \in BooleanFields :
         /\ row[ColumnOf[f]] # NULL => mapped[f] = row[ColumnOf[f]][1]
         /\ row[ColumnOf[f]] = NULL => mapped[f] = DEFAULT_SITE_SETTINGS[f]
    /\ DEFAULT_SITE_SETTINGS.applyPhoneGlobally = TRUE
    /\ row.apply_phone_globally = Some(FALSE) => mapped.applyPhoneGlobally = FALSE

\* The row with every field populated stores false for apply_phone_globally
\* and was mapped to applyPhoneGlobally = false.
C25_Witness ==
  /\ Mapped
  /\ row = RowFull
  /\ row.apply_phone_globally = Some(FALSE)
  /\ mapped.applyPhoneGlobally = FALSE
  /\ mapped.siteNoindex = TRUE

\* Consumer c called fetchSettings: its effect has run.
Looked(c) == pc[c] \notin {"new", "rendered"}

\* Consumer c holds the failure of the fetch it awaited.
HoldsFailure(c) == Received(c) /\ FetchOf(c).state = "rejected"

\* C26: a consumer calls fetchSettings once, when its effect runs, and never
\* again, so it starts at most one request: every request is started by the
\* call of a consumer that had not called before.  A consumer that received
\* the failure of its fetch holds the defaults and the error and keeps both
\* in every later step, and a request issued after that is started by the
\* call of another consumer.
C26_LookupOnce ==
  [][/\ \A c \in Consumers : Looked(c) => Looked(c)'
     /\ requests' # requests
          => /\ requests' = requests + 1
             /\ \E c \in Consumers : ~Looked(c) /\ pc'[c] = "initiated"
     /\ \A c \in Consumers :
          /\ HoldsFailure(c)'
               => /\ Deref(settings[c])' = DEFAULT_SITE_SETTINGS
                  /\ error'[c] # NULL
          /\ HoldsFailure(c)
               => /\ settings'[c] = settings[c]
                  /\ error'[c] = error[c]
                  /\ pc'[c] = pc[c]
                  /\ requests' # requests
                       => \E d \in Consumers \ {c} :
                            ~Looked(d) /\ pc'[d] = "initiated"]_vars

\* C27: when every fetch that was started is answered, a consumer whose
\* effect has run either is unmounted or comes to have isLoading false,
\* whatever the other consumers do and whenever clearSiteSettingsCache is
\* called.
C27_EventuallyLoaded ==
  \A c \in Consumers : isMounted[c] ~> (~isLoading[c] \/ ~isMounted[c])

\* After a call of clearSiteSettingsCache, a joiner that rendered with
\* isLoading true and stayed mounted received the outcome of its fetch and
\* has isLoading false, while a consumer that was unmounted still shows
\* isLoading true.
C27_Witness ==
  \E c, d \in Consumers :
    /\ invalidations > 0
    /\ pc[c] = "joinerDone" /\ isMounted[c] /\ ~isLoading[c]
    /\ FetchOf(c).startInv > 0
    /\ Looked(d) /\ ~isMounted[d] /\ isLoading[d]

\* The fields of the document of the rendered editor: those bound to an
\* input, and every field of every stored item.
FieldPaths ==
  LET E == SpecificEditors[editor] IN
    {Path("text", p[1], p[2], 0) : p \in E.text}
      \cup {Path("list", l.section, l.field, 0) : l \in E.lists}
      \cup {Path("top", k, k, 0) : k \in E.topText}
      \cup UNION {{Path("item", a, f, i) :
                     f \in DOMAIN StoredItem(a),
                     i \in 1..Len(ItemsIn(StoredContent(pageKey), a))} :
                   a \in {b \in AllArrays : HasArray(b)}}

\* What document doc holds in the field at path.
ValueAt(doc, path) ==
  CASE path[1] = "top" -> doc[path[2]]
    [] path[1] = "item" -> ItemsIn(doc, path[2])[path[4]][path[3]]
    [] OTHER -> doc[path[2]][path[3]]

\* C28: edits accumulate.  After any sequence of field edits on a specific
\* editor, each made on the document the one before passed to onChange, the
\* document has the keys it was loaded with, holds in every edited field
\* the value last written to it, and in every other field what it was
\* loaded with.
C28_EditsAccumulate ==
  (editor \in DOMAIN SpecificEditors /\ fieldEdits.only) =>
    /\ DOMAIN content = DOMAIN StoredContent(pageKey)
    /\ \A path \in FieldPaths :
         IF path \in DOMAIN fieldEdits.last
           THEN ValueAt(content, path) = fieldEdits.last[path]
           ELSE ValueAt(content, path) = ValueAt(StoredContent(pageKey), path)

\* On the home page a field of an item and a list textarea of another
\* section were edited, one after the other.
C28_Witness ==
  /\ editor = "HomePageEditor"
  /\ edits = 2
  /\ fieldEdits.only
  /\ Cardinality(DOMAIN fieldEdits.last) = 2
  /\ \E q \in DOMAIN fieldEdits.last : q[1] = "item"
  /\ \E q \in DOMAIN fieldEdits.last :
       q[1] = "list" /\ fieldEdits.last[q] = << << "a", "a" >> >>

====
